---- MODULE Spec2Model ----
(***************************************************************************)
(* ToonFrame Architect: the storyboard store of the App component, the     *)
(* generate handler, the sequential scene-image queue with its repair      *)
(* pass, and the retry wrapper of the image service.                       *)
(*                                                                         *)
(* One action is one synchronous stretch of code between two awaits.       *)
(* React applies the queued state updaters at the render that follows the  *)
(* stretch, so an action applies its patches in program order; the one     *)
(* place where the code reads storyboardRef.current inside the stretch     *)
(* that queued updaters (retryMissingImages, called right after the last   *)
(* scene of the first pass) is modelled by the choice "eager".             *)
(***************************************************************************)
EXTENDS Integers, Sequences, FiniteSets, TLC

\* ---------------------------------------------------------------- bounds
MaxSessions == 2      \* generate requests in one behaviour
MaxScenes == 2        \* scenes in an analysed plan
MaxRetriesArg == 6    \* largest maxRetries argument tried on the wrapper alone
MaxFailures == 5      \* backend calls that fail in one behaviour
SessionCost == 4      \* what a further generate request takes from that budget
MaxCandidates == 2    \* candidates in a backend response
MaxParts == 2         \* parts in a candidate

\* ------------------------------------------------------------- constants
FirstPassMaxRetries == 3
RepairMaxRetries == 2
SheetMaxRetries == 3
BackoffBase == 1000
BackoffCap == 5000

Sessions == 1..MaxSessions
Views == <<"front", "side", "back">>

PermissionDeniedQueue == "Permission denied. You must select a valid API Key from a paid project to use these features."
PermissionDeniedGenerate == "Permission denied. Please select a valid API Key."
NoImageMsg == "No image generated."
NoCharacterMsg == "No character image generated."
EmptyResponseMsg == "No response from Gemini."
ParseFailedMsg == "Failed to parse storyboard data."
ForbiddenMsg == "got status: 403 PERMISSION_DENIED"
NotFoundMsg == "Requested entity was not found."
RetriesGenericMsg == "Scene image generation failed after all retries"
NoErrorState == "null"

\* errMsg.includes(needle), tabulated for the messages the backend boundary raises
Includes(msg, needle) ==
    \/ msg = ForbiddenMsg /\ needle \in {"403", "PERMISSION_DENIED"}
    \/ msg = NotFoundMsg /\ needle = "Requested entity was not found"

IsAuthorizationSignal(msg) ==
    \/ Includes(msg, "403")
    \/ Includes(msg, "PERMISSION_DENIED")
    \/ Includes(msg, "Requested entity was not found")

\* --------------------------------------------------------------- values
\* An image reference: the session whose pipeline obtained it and the pass
\* (1 first pass, 2 repair pass) of the call that returned it; Unset is undefined.
Unset == [sess |-> 0, pass |-> 0]
Image(sess, pass) == [sess |-> sess, pass |-> pass]

NoError == [msg |-> "", attempt |-> 0]
Err(msg, attempt) == [msg |-> msg, attempt |-> attempt]

NoSheet == [attached |-> FALSE, front |-> FALSE, side |-> FALSE, back |-> FALSE]

NullStoryboard == [isNull |-> TRUE, bible |-> 0, scenes |-> <<>>, sheet |-> NoSheet]

\* A scene as the analysis returns it: no image field or status flag is present
\* (undefined reads as falsy: Unset, FALSE, 0).
NewScene(id) ==
    [id |-> id, imageAUrl |-> Unset, imageBUrl |-> Unset, isGeneratingImage |-> FALSE,
     retryAttempt |-> 0, imageAFailed |-> FALSE, imageBFailed |-> FALSE]

\* The StoryboardData of the analysis of generate request sess, with n scenes.
AnalysedPlan(sess, n) ==
    [isNull |-> FALSE, bible |-> sess, scenes |-> [k \in 1..n |-> NewScene(k)], sheet |-> NoSheet]

VARIABLES
    storyboard,                  \* useState<StoryboardData | null>
    storyboardRef,               \* useRef<StoryboardData | null>
    isAnalyzing, error, characterImage, isGeneratingCharacterSheet,
    hasApiKey, checkingKey,
    gen,                         \* the running handleGenerate call
    queue,                       \* queue[s]: the processImagesQueue call started by request s
    sessions,                    \* generate requests made so far
    failures,                    \* backend calls that failed or brought no image so far
    rw,                          \* a generateSceneImageWithRetry call observed on its own
    svc                          \* a call of a service function observed on its own

vars == <<storyboard, storyboardRef, isAnalyzing, error, characterImage,
          isGeneratingCharacterSheet, hasApiKey, checkingKey, gen, queue, sessions, failures, rw, svc>>

appVars == <<storyboard, storyboardRef, isAnalyzing, error, characterImage,
             isGeneratingCharacterSheet, hasApiKey, checkingKey, gen, queue, sessions, failures>>

\* ------------------------------------------------------- the state store
\* variant: the patched scene is rebuilt from its id and the updates alone
MergeReset(s, updates) ==
    [f \in DOMAIN s |-> IF f \in DOMAIN updates THEN updates[f] ELSE NewScene(s.id)[f]]

\* { ...s, ...updates }
Merge(s, updates) ==
    [f \in DOMAIN s |-> IF f \in DOMAIN updates THEN updates[f] ELSE s[f]]

\* variant: the id comparison is inverted, the patch lands on the other scenes
updateSceneInStateOtherScenes(st, sceneId, updates) ==
    IF st.sb.isNull
    THEN [sb |-> NullStoryboard, ref |-> st.ref]
    ELSE LET newScenes == [k \in DOMAIN st.sb.scenes |->
                              IF st.sb.scenes[k].id # sceneId
                              THEN Merge(st.sb.scenes[k], updates)
                              ELSE st.sb.scenes[k]]
             newState == [st.sb EXCEPT !.scenes = newScenes]
         IN [sb |-> newState, ref |-> newState]

\* st is the pair [sb |-> storyboard, ref |-> storyboardRef.current]
updateSceneInState(st, sceneId, updates) ==
    IF st.sb.isNull
    THEN [sb |-> NullStoryboard, ref |-> st.ref]
    ELSE LET newScenes == [k \in DOMAIN st.sb.scenes |->
                              IF st.sb.scenes[k].id = sceneId
                              THEN Merge(st.sb.scenes[k], updates)
                              ELSE st.sb.scenes[k]]
             newState == [st.sb EXCEPT !.scenes = newScenes]
         IN [sb |-> newState, ref |-> newState]

\* ---------------------------------------------------- the retry wrapper
\* One turn of the for loop of generateSceneImageWithRetry: the call of attempt
\* r.attempt came back with outcome o ("ok" or an error message).
\* variant: the wait doubles without a cap
RetryWaitUncapped(attempt) == BackoffBase * (2 ^ (attempt - 1))

\* Math.min(1000 * Math.pow(2, attempt - 1), 5000)
RetryWait(attempt) ==
    LET exp == BackoffBase * (2 ^ (attempt - 1))
    IN IF exp < BackoffCap THEN exp ELSE BackoffCap

\* variant: the loop runs while attempt <= maxRetries + 1
generateSceneImageWithRetryOneMore(r, o) ==
    IF o = "ok"
    THEN [status |-> "resolved", attempt |-> r.attempt, lastError |-> r.lastError,
          thrown |-> NoError, wait |-> 0]
    ELSE LET lastError == Err(o, r.attempt)
         IN IF r.attempt < r.maxRetries + 1
            THEN [status |-> "pending", attempt |-> r.attempt + 1, lastError |-> lastError,
                  thrown |-> NoError, wait |-> RetryWait(r.attempt)]
            ELSE [status |-> "rejected", attempt |-> r.attempt + 1, lastError |-> lastError,
                  thrown |-> lastError, wait |-> 0]

\* variant: lastError is assigned only while it is null, so the first error is kept
generateSceneImageWithRetryFirstError(r, o) ==
    IF o = "ok"
    THEN [status |-> "resolved", attempt |-> r.attempt, lastError |-> r.lastError,
          thrown |-> NoError, wait |-> 0]
    ELSE LET lastError == IF r.lastError = NoError THEN Err(o, r.attempt) ELSE r.lastError
         IN IF r.attempt < r.maxRetries
            THEN [status |-> "pending", attempt |-> r.attempt + 1, lastError |-> lastError,
                  thrown |-> NoError, wait |-> RetryWait(r.attempt)]
            ELSE [status |-> "rejected", attempt |-> r.attempt + 1, lastError |-> lastError,
                  thrown |-> lastError, wait |-> 0]

generateSceneImageWithRetry(r, o) ==
    IF o = "ok"
    THEN [status |-> "resolved", attempt |-> r.attempt, lastError |-> r.lastError,
          thrown |-> NoError, wait |-> 0]
    ELSE LET lastError == Err(o, r.attempt)
         IN IF r.attempt < r.maxRetries
            THEN [status |-> "pending", attempt |-> r.attempt + 1, lastError |-> lastError,
                  thrown |-> NoError, wait |-> RetryWait(r.attempt)]
            ELSE [status |-> "rejected", attempt |-> r.attempt + 1, lastError |-> lastError,
                  thrown |-> lastError, wait |-> 0]

\* ------------------------------------------------- the scene image queue
InFlight == {"firstA", "firstB", "repairA", "repairB"}

IdleQueue ==
    [pc |-> "idle", sess |-> 0, n |-> 0, i |-> 0, attempt |-> 0, maxRetries |-> 0,
     lastError |-> NoError, missing |-> <<>>, j |-> 0,
     \* the closure of the call: its consistencyContext and its charImage argument
     consistencyContext |-> <<>>, charImage |-> 0,
     \* history: what the call has done so far
     issued |-> {}, authFailed |-> FALSE, settle |-> "none", thrown |-> NoError,
     \* history: the context and the reference image the requests carried
     sent |-> {}]

Store == [sb |-> storyboard, ref |-> storyboardRef.current]

\* variant: the scene loop walks data.scenes from its last element
SceneIdReversed(q, i) == AnalysedPlan(q.sess, q.n).scenes[q.n + 1 - i].id

\* data.scenes[i].id of the plan the queue was started with
SceneId(q, i) == AnalysedPlan(q.sess, q.n).scenes[i].id

\* variant: the request takes the character image of the App state when it is made
CallWithRetryStateImage(q, pc, maxRetries, id, img) ==
    [q EXCEPT !.pc = pc, !.attempt = 1, !.maxRetries = maxRetries, !.lastError = NoError,
              !.issued = @ \cup {[pass |-> IF pc \in {"firstA", "firstB"} THEN 1 ELSE 2,
                                  id |-> id, img |-> img]},
              !.sent = @ \cup {[consistencyContext |-> q.consistencyContext,
                                characterImage |-> characterImage]}]

\* generateSceneImageWithRetry(description, size, charImage, consistencyContext) is
\* called: attempt 1 of the loop issues the request, every further attempt repeats
\* it with the same arguments
CallWithRetry(q, pc, maxRetries, id, img) ==
    [q EXCEPT !.pc = pc, !.attempt = 1, !.maxRetries = maxRetries, !.lastError = NoError,
              !.issued = @ \cup {[pass |-> IF pc \in {"firstA", "firstB"} THEN 1 ELSE 2,
                                  id |-> id, img |-> img]},
              !.sent = @ \cup {[consistencyContext |-> q.consistencyContext,
                                characterImage |-> q.charImage]}]

\* variant: the inner catch rethrows what it caught
EscapesInnerCatchRethrown(msg) == TRUE

\* the inner catch (imgError) of each image logs and patches the failed flag: it does
\* not rethrow, so no error of the image call reaches the catch of the scene
EscapesInnerCatch(msg) == FALSE

\* the try/catch around each image call: store the image and clear the flag, or flag it
FirstPassPatchA(st, id, r, sess) ==
    IF r.status = "resolved"
    THEN updateSceneInState(st, id, [imageAUrl |-> Image(sess, 1), imageAFailed |-> FALSE])
    ELSE updateSceneInState(st, id, [imageAFailed |-> TRUE])

FirstPassPatchB(st, id, r, sess) ==
    IF r.status = "resolved"
    THEN updateSceneInState(st, id, [imageBUrl |-> Image(sess, 1), imageBFailed |-> FALSE])
    ELSE updateSceneInState(st, id, [imageBFailed |-> TRUE])

RepairPatchA(st, id, r, sess) ==
    IF r.status = "resolved"
    THEN updateSceneInState(st, id, [imageAUrl |-> Image(sess, 2), imageAFailed |-> FALSE])
    ELSE updateSceneInState(st, id, [imageAFailed |-> TRUE])

RepairPatchB(st, id, r, sess) ==
    IF r.status = "resolved"
    THEN updateSceneInState(st, id, [imageBUrl |-> Image(sess, 2), imageBFailed |-> FALSE])
    ELSE updateSceneInState(st, id, [imageBFailed |-> TRUE])

\* top of the scene loop of processImagesQueue for data.scenes[i]
StartScene(st, q, i) ==
    LET id == SceneId(q, i)
        st1 == updateSceneInState(st, id, [isGeneratingImage |-> TRUE])
        st2 == updateSceneInState(st1, id, [retryAttempt |-> 1])
    IN [st |-> st2, q |-> CallWithRetry([q EXCEPT !.i = i], "firstA", FirstPassMaxRetries, id, "A")]

IsMissing(scene) == scene.imageAUrl = Unset \/ scene.imageBUrl = Unset

Snapshot(scenes) ==
    [k \in DOMAIN scenes |-> [id |-> scenes[k].id, imageAUrl |-> scenes[k].imageAUrl,
                              imageBUrl |-> scenes[k].imageBUrl]]

\* the for loop of retryMissingImages from scenesWithMissingImages[j] on, up to its next await
RECURSIVE RepairFrom(_, _, _)

\* variant: at the end of the list retryMissingImages runs again while images are missing
RepairFromAgain(st, q, j) ==
    IF j > Len(q.missing)
    THEN LET again == IF st.ref.isNull THEN <<>>
                      ELSE SelectSeq(Snapshot(st.ref.scenes), IsMissing)
         IN IF Len(again) = 0
            THEN [st |-> st, q |-> [q EXCEPT !.pc = "done", !.j = j]]
            ELSE RepairFrom(st, [q EXCEPT !.missing = again], 1)
    ELSE LET scene == q.missing[j]
             st1 == updateSceneInState(st, scene.id, [isGeneratingImage |-> TRUE])
         IN IF scene.imageAUrl = Unset
            THEN [st |-> updateSceneInState(st1, scene.id, [retryAttempt |-> 3]),
                  q |-> CallWithRetry([q EXCEPT !.j = j], "repairA", RepairMaxRetries, scene.id, "A")]
            ELSE IF scene.imageBUrl = Unset
            THEN [st |-> updateSceneInState(st1, scene.id, [retryAttempt |-> 4]),
                  q |-> CallWithRetry([q EXCEPT !.j = j], "repairB", RepairMaxRetries, scene.id, "B")]
            ELSE RepairFrom(updateSceneInState(st1, scene.id, [isGeneratingImage |-> FALSE]), q, j + 1)

RepairFrom(st, q, j) ==
    IF j > Len(q.missing)
    THEN [st |-> st, q |-> [q EXCEPT !.pc = "done", !.j = j]]
    ELSE LET scene == q.missing[j]
             st1 == updateSceneInState(st, scene.id, [isGeneratingImage |-> TRUE])
         IN IF scene.imageAUrl = Unset
            THEN [st |-> updateSceneInState(st1, scene.id, [retryAttempt |-> 3]),
                  q |-> CallWithRetry([q EXCEPT !.j = j], "repairA", RepairMaxRetries, scene.id, "A")]
            ELSE IF scene.imageBUrl = Unset
            THEN [st |-> updateSceneInState(st1, scene.id, [retryAttempt |-> 4]),
                  q |-> CallWithRetry([q EXCEPT !.j = j], "repairB", RepairMaxRetries, scene.id, "B")]
            ELSE RepairFrom(updateSceneInState(st1, scene.id, [isGeneratingImage |-> FALSE]), q, j + 1)

\* retryMissingImages: currentStoryboard is what storyboardRef.current holds when read
retryMissingImages(st, currentStoryboard, q) ==
    IF currentStoryboard.isNull
    THEN [st |-> st, q |-> [q EXCEPT !.pc = "done"]]
    ELSE LET scenesWithMissingImages == SelectSeq(Snapshot(currentStoryboard.scenes), IsMissing)
         IN IF Len(scenesWithMissingImages) = 0
            THEN [st |-> st, q |-> [q EXCEPT !.pc = "done"]]
            ELSE RepairFrom(st, [q EXCEPT !.missing = scenesWithMissingImages], 1)

\* variant: a scene whose last image was rejected ends the loop
NextSceneUnlessFailed(st, refAtRead, q) ==
    IF q.settle = "rejected"
    THEN retryMissingImages(st, refAtRead, q)
    ELSE IF q.i < q.n
    THEN StartScene(st, q, q.i + 1)
    ELSE retryMissingImages(st, refAtRead, q)

\* the queue after the try/catch/finally of scene i: next scene, or the repair pass.
\* refAtRead is storyboardRef.current as retryMissingImages finds it.
NextScene(st, refAtRead, q) ==
    IF q.i < q.n
    THEN StartScene(st, q, q.i + 1)
    ELSE retryMissingImages(st, refAtRead, q)

\* what the history records when the wrapper settles
Settled(q, r) ==
    [q EXCEPT !.settle = r.status, !.thrown = r.thrown, !.lastError = NoError,
              !.attempt = r.attempt,
              !.authFailed = @ \/ (r.status = "rejected" /\ IsAuthorizationSignal(r.thrown.msg))]

SceneOutcomes == {"ok", NoImageMsg, ForbiddenMsg}

\* the part of the budget of a behaviour that is used up
Spent == failures + SessionCost * (IF sessions > 1 THEN sessions - 1 ELSE 0)

\* the backend answers a call: a failure (an error, or a response without an image)
\* is drawn only while the budget lasts
Backend(failed) ==
    IF failed
    THEN Spent < MaxFailures /\ failures' = failures + 1
    ELSE UNCHANGED failures

Commit(res) ==
    /\ storyboard' = res.st.sb
    /\ storyboardRef' = [current |-> res.st.ref]
    /\ queue' = [queue EXCEPT ![res.q.sess] = res.q]

\* a failed attempt that is not the last one: wait, then the next attempt is issued
RetryAttempt(p) ==
    /\ queue[p].pc \in InFlight
    /\ \E o \in SceneOutcomes :
          LET r == generateSceneImageWithRetry(queue[p], o)
          IN /\ r.status = "pending"
             /\ Backend(TRUE)
             /\ queue' = [queue EXCEPT ![p].attempt = r.attempt, ![p].lastError = r.lastError,
                                       ![p].authFailed = @ \/ IsAuthorizationSignal(o)]
    /\ UNCHANGED <<storyboard, storyboardRef, isAnalyzing, error, characterImage,
                   isGeneratingCharacterSheet, hasApiKey, checkingKey, gen, sessions, rw, svc>>

\* image A of scene i of the first pass settles. The catch (err) of the scene, with
\* its authorization test, takes only an error that escaped the inner catch.
FirstPassImageA(p) ==
    /\ queue[p].pc = "firstA"
    /\ \E o \in SceneOutcomes :
          LET q0 == queue[p]
              r == generateSceneImageWithRetry(q0, o)
              q == Settled(q0, r)
              id == SceneId(q0, q0.i)
              st1 == FirstPassPatchA(Store, id, r, p)
          IN /\ r.status # "pending"
             /\ Backend(o # "ok")
             /\ IF r.status = "rejected" /\ EscapesInnerCatch(r.thrown.msg)
                THEN IF IsAuthorizationSignal(r.thrown.msg)
                     THEN /\ error' = PermissionDeniedQueue
                          /\ hasApiKey' = FALSE
                          /\ Commit([st |-> updateSceneInState(
                                              updateSceneInState(Store, id, [isGeneratingImage |-> FALSE]),
                                              id, [isGeneratingImage |-> FALSE]),
                                     q |-> [q EXCEPT !.pc = "done"]])
                     ELSE /\ UNCHANGED <<error, hasApiKey>>
                          /\ Commit(NextScene(updateSceneInState(Store, id, [isGeneratingImage |-> FALSE]),
                                              storyboardRef.current, q))
                ELSE /\ UNCHANGED <<error, hasApiKey>>
                     /\ Commit([st |-> updateSceneInState(st1, id, [retryAttempt |-> 2]),
                                q |-> CallWithRetry(q, "firstB", FirstPassMaxRetries, id, "B")])
    /\ UNCHANGED <<isAnalyzing, characterImage, isGeneratingCharacterSheet, checkingKey,
                   gen, sessions, rw, svc>>

\* image B of scene i of the first pass settles; the scene ends, the next one starts
\* or, after the last one, retryMissingImages runs up to its first await.
\* eager: React computed the first queued updater at once (queue empty), so the
\* ref already holds the image-B patch when retryMissingImages reads it; otherwise
\* the updaters run at the next render and the ref is the one of the last render.
FirstPassImageB(p) ==
    /\ queue[p].pc = "firstB"
    /\ \E o \in SceneOutcomes, eager \in BOOLEAN :
          LET q0 == queue[p]
              r == generateSceneImageWithRetry(q0, o)
              q == Settled(q0, r)
              id == SceneId(q0, q0.i)
              st1 == FirstPassPatchB(Store, id, r, p)
              refAtRead == IF eager THEN st1.ref ELSE storyboardRef.current
          IN /\ r.status # "pending"
             /\ Backend(o # "ok")
             /\ IF r.status = "rejected" /\ EscapesInnerCatch(r.thrown.msg)
                THEN IF IsAuthorizationSignal(r.thrown.msg)
                     THEN /\ error' = PermissionDeniedQueue
                          /\ hasApiKey' = FALSE
                          /\ Commit([st |-> updateSceneInState(
                                              updateSceneInState(Store, id, [isGeneratingImage |-> FALSE]),
                                              id, [isGeneratingImage |-> FALSE]),
                                     q |-> [q EXCEPT !.pc = "done"]])
                     ELSE /\ UNCHANGED <<error, hasApiKey>>
                          /\ Commit(NextScene(updateSceneInState(Store, id, [isGeneratingImage |-> FALSE]),
                                              storyboardRef.current, q))
                ELSE /\ UNCHANGED <<error, hasApiKey>>
                     /\ Commit(NextScene(updateSceneInState(st1, id, [isGeneratingImage |-> FALSE]),
                                         refAtRead, q))
    /\ UNCHANGED <<isAnalyzing, characterImage, isGeneratingCharacterSheet, checkingKey,
                   gen, sessions, rw, svc>>

\* image A of scenesWithMissingImages[j] settles in the repair pass
RepairImageA(p) ==
    /\ queue[p].pc = "repairA"
    /\ \E o \in SceneOutcomes :
          LET q0 == queue[p]
              r == generateSceneImageWithRetry(q0, o)
              q == Settled(q0, r)
              scene == q0.missing[q0.j]
              st1 == RepairPatchA(Store, scene.id, r, p)
          IN /\ r.status # "pending"
             /\ Backend(o # "ok")
             /\ IF scene.imageBUrl = Unset
                THEN Commit([st |-> updateSceneInState(st1, scene.id, [retryAttempt |-> 4]),
                             q |-> CallWithRetry(q, "repairB", RepairMaxRetries, scene.id, "B")])
                ELSE Commit(RepairFrom(updateSceneInState(st1, scene.id, [isGeneratingImage |-> FALSE]),
                                       q, q.j + 1))
    /\ UNCHANGED <<isAnalyzing, error, characterImage, isGeneratingCharacterSheet, hasApiKey,
                   checkingKey, gen, sessions, rw, svc>>

\* image B of scenesWithMissingImages[j] settles in the repair pass
RepairImageB(p) ==
    /\ queue[p].pc = "repairB"
    /\ \E o \in SceneOutcomes :
          LET q0 == queue[p]
              r == generateSceneImageWithRetry(q0, o)
              q == Settled(q0, r)
              scene == q0.missing[q0.j]
              st1 == RepairPatchB(Store, scene.id, r, p)
          IN /\ r.status # "pending"
             /\ Backend(o # "ok")
             /\ Commit(RepairFrom(updateSceneInState(st1, scene.id, [isGeneratingImage |-> FALSE]),
                                  q, q.j + 1))
    /\ UNCHANGED <<isAnalyzing, error, characterImage, isGeneratingCharacterSheet, hasApiKey,
                   checkingKey, gen, sessions, rw, svc>>

\* `Character: ${characterVisuals}\nEnvironment: ${environmentVisuals}` of a bible
ConsistencyContext(bible) == <<"Character: ", bible, "\nEnvironment: ", bible>>

\* processImagesQueue(data, size, charImage) up to its first await
processImagesQueue(st, sess, n, charImage) ==
    StartScene(st, [IdleQueue EXCEPT !.sess = sess, !.n = n, !.charImage = charImage,
                                     !.consistencyContext =
                                         ConsistencyContext(AnalysedPlan(sess, n).bible)], 1)

\* ------------------------------------------------------ the App handlers
IdleGen ==
    [pc |-> "idle", sess |-> 0, n |-> 0, view |-> 0, retryCount |-> 0, results |-> NoSheet,
     \* history: the backend calls made for the current view, the one in flight included,
     \* and the message of the error the catch of the last request took
     calls |-> 0, thrown |-> ""]

Scripts == {"", "  ", "A fox walks into a clearing and sits down."}
Trim(script) == IF script = "  " THEN "" ELSE script

\* the results view renders BibleCard with storyboard.consistencyBible; without
\* that member the render throws and, with no error boundary, the App is unmounted
Mounted == ~(~storyboard.isNull /\ ~isAnalyzing /\ storyboard.bible = 0)

\* useEffect on mount: checkKey
CheckKey ==
    /\ checkingKey
    /\ \E hasKey \in BOOLEAN : hasApiKey' = hasKey
    /\ checkingKey' = FALSE
    /\ UNCHANGED <<storyboard, storyboardRef, isAnalyzing, error, characterImage,
                   isGeneratingCharacterSheet, gen, queue, sessions, failures, rw, svc>>

\* handleSelectKey, from the landing page, the header or the error banner
HandleSelectKey ==
    /\ Mounted
    /\ ~checkingKey
    /\ \E selected \in BOOLEAN :
          IF selected
          THEN hasApiKey' = TRUE /\ error' = NoErrorState
          ELSE error' = "Failed to select API key. Please try again." /\ UNCHANGED hasApiKey
    /\ UNCHANGED <<storyboard, storyboardRef, isAnalyzing, characterImage,
                   isGeneratingCharacterSheet, checkingKey, gen, queue, sessions, failures, rw, svc>>

\* handleGenerate up to the await of the analysis; the button is rendered on the main
\* page (key checked and present) and disabled while isAnalyzing or the script is blank
HandleGenerate ==
    /\ Mounted
    /\ ~checkingKey /\ hasApiKey
    /\ ~isAnalyzing
    /\ sessions < MaxSessions
    /\ sessions = 0 \/ Spent + SessionCost <= MaxFailures
    /\ \E script \in Scripts : Trim(script) # ""
    /\ isAnalyzing' = TRUE
    /\ error' = NoErrorState
    /\ storyboard' = NullStoryboard
    /\ storyboardRef' = [current |-> NullStoryboard]
    /\ characterImage' = 0
    /\ sessions' = sessions + 1
    /\ gen' = [IdleGen EXCEPT !.pc = "analysis", !.sess = sessions + 1]
    /\ UNCHANGED <<isGeneratingCharacterSheet, hasApiKey, checkingKey, queue, failures, rw, svc>>

\* variant: the catch shows every error as it is and keeps the key
GenerateFailsKeepsKey(errMsg) ==
    /\ error' = errMsg
    /\ UNCHANGED hasApiKey
    /\ isAnalyzing' = FALSE
    /\ gen' = [IdleGen EXCEPT !.thrown = errMsg]

\* catch (err) and finally of handleGenerate
GenerateFails(errMsg) ==
    /\ IF IsAuthorizationSignal(errMsg)
       THEN error' = PermissionDeniedGenerate /\ hasApiKey' = FALSE
       ELSE error' = (IF errMsg # "" THEN errMsg ELSE "An unexpected error occurred.")
            /\ UNCHANGED hasApiKey
    /\ isAnalyzing' = FALSE
    /\ gen' = [IdleGen EXCEPT !.thrown = errMsg]

\* response.text of the analysis call: absent, text that is not JSON, or JSON with
\* the scenes (their ids in order) and the bible (0: no consistencyBible member)
EmptyText == [kind |-> "empty", bible |-> 0, ids |-> <<>>]
NotJson == [kind |-> "text", bible |-> 0, ids |-> <<>>]
JsonPlan(bible, ids) == [kind |-> "json", bible |-> bible, ids |-> ids]

\* JSON.parse(response.text) as StoryboardData: the cast checks nothing
Parsed(payload) ==
    [isNull |-> FALSE, bible |-> payload.bible,
     scenes |-> [k \in 1..Len(payload.ids) |-> NewScene(payload.ids[k])], sheet |-> NoSheet]

\* generateStoryboardAnalysis once generateContent has returned response.text
generateStoryboardAnalysis(payload) ==
    IF payload.kind = "empty"
    THEN [status |-> "rejected", msg |-> EmptyResponseMsg, data |-> NullStoryboard]
    ELSE IF payload.kind = "text"
    THEN [status |-> "rejected", msg |-> ParseFailedMsg, data |-> NullStoryboard]
    ELSE [status |-> "resolved", msg |-> "", data |-> Parsed(payload)]

\* what generateContent returns to one generate request: no text, text that is
\* not JSON, JSON without a consistencyBible, or a plan of the script
Payloads(sess) ==
    {EmptyText, NotJson, JsonPlan(0, <<1>>)}
       \cup {JsonPlan(sess, [k \in 1..n |-> k]) : n \in 1..MaxScenes}

\* data.consistencyBible.characterVisuals when data has no consistencyBible
BibleTypeErrorMsg == "Cannot read properties of undefined (reading 'characterVisuals')"

\* generateStoryboardAnalysis settles
AnalysisReply ==
    /\ gen.pc = "analysis"
    /\ \/ \E payload \in Payloads(gen.sess) :
             LET r == generateStoryboardAnalysis(payload)
             IN IF r.status = "resolved"
                THEN /\ storyboard' = r.data
                     /\ storyboardRef' = [current |-> r.data]
                     /\ IF r.data.bible = 0
                        THEN Backend(TRUE) /\ GenerateFails(BibleTypeErrorMsg)
                        ELSE /\ gen' = [gen EXCEPT !.pc = "character",
                                                   !.n = Len(r.data.scenes)]
                             /\ UNCHANGED <<isAnalyzing, error, hasApiKey>>
                             /\ Backend(FALSE)
                ELSE /\ Backend(TRUE)
                     /\ GenerateFails(r.msg)
                     /\ UNCHANGED <<storyboard, storyboardRef>>
       \/ /\ Backend(TRUE)
          /\ GenerateFails(ForbiddenMsg)
          /\ UNCHANGED <<storyboard, storyboardRef>>
    /\ UNCHANGED <<characterImage, isGeneratingCharacterSheet, checkingKey, queue, sessions, rw, svc>>

CharacterErrors == {NoCharacterMsg, ForbiddenMsg}

\* createCharacter settles
CharacterReply ==
    /\ gen.pc = "character"
    /\ \/ /\ characterImage' = gen.sess
          /\ isGeneratingCharacterSheet' = TRUE
          /\ gen' = [gen EXCEPT !.pc = "sheet", !.view = 1, !.retryCount = 0, !.calls = 1,
                          !.results = NoSheet]
          /\ UNCHANGED <<isAnalyzing, error, hasApiKey>>
          /\ Backend(FALSE)
       \/ \E errMsg \in CharacterErrors :
             /\ Backend(TRUE)
             /\ GenerateFails(errMsg)
             /\ UNCHANGED <<characterImage, isGeneratingCharacterSheet>>
    /\ UNCHANGED <<storyboard, storyboardRef, checkingKey, queue, sessions, rw, svc>>

\* createCharacterReferenceSheet returned: attach the sheet, start the queue, finally
SheetDone(results) ==
    LET attached == IF storyboard.isNull THEN NullStoryboard
                    ELSE [storyboard EXCEPT !.sheet = [results EXCEPT !.attached = TRUE]]
        res == processImagesQueue([sb |-> attached, ref |-> storyboardRef.current], gen.sess, gen.n,
                                  characterImage)
    IN /\ storyboard' = res.st.sb
       /\ storyboardRef' = [current |-> res.st.ref]
       /\ queue' = [queue EXCEPT ![gen.sess] = res.q]
       /\ isGeneratingCharacterSheet' = FALSE
       /\ isAnalyzing' = FALSE
       /\ gen' = IdleGen

SheetOutcomes == {"image", "noimage", "error"}

\* variant: a view that ends without an image empties the sheet
SheetResultsCleared(results, view, o) ==
    IF o = "image" THEN [results EXCEPT ![Views[view]] = TRUE] ELSE NoSheet

\* results[viewName] after a call of the view came back with outcome o
SheetResults(results, view, o) ==
    IF o = "image" THEN [results EXCEPT ![Views[view]] = TRUE] ELSE results

\* one turn of the while loop of a view of createCharacterReferenceSheet: the call
\* came back with an image, with a response that holds none (retryCount is left as
\* it is and the loop calls again), or with an error (retryCount++, wait, call again
\* while retryCount < maxRetries)
SheetReply ==
    /\ gen.pc = "sheet"
    /\ \E o \in SheetOutcomes :
          LET results == SheetResults(gen.results, gen.view, o)
              retryCount == IF o = "error" THEN gen.retryCount + 1 ELSE gen.retryCount
              viewEnds == o = "image" \/ ~(retryCount < SheetMaxRetries)
          IN /\ Backend(o # "image")
             /\ IF ~viewEnds
                THEN /\ gen' = [gen EXCEPT !.retryCount = retryCount, !.calls = @ + 1]
                     /\ UNCHANGED <<storyboard, storyboardRef, isAnalyzing,
                                    isGeneratingCharacterSheet, queue>>
                ELSE IF gen.view < Len(Views)
                THEN /\ gen' = [gen EXCEPT !.view = gen.view + 1, !.retryCount = 0,
                                           !.calls = 1, !.results = results]
                     /\ UNCHANGED <<storyboard, storyboardRef, isAnalyzing,
                                    isGeneratingCharacterSheet, queue>>
                ELSE SheetDone(results)
    /\ UNCHANGED <<error, characterImage, hasApiKey, checkingKey, sessions, rw, svc>>

\* ------------------------------------------------- the download section
WaitForImagesZip == "Please wait for all images to be generated before downloading."
WaitForImagesComplete == "Please wait for all images to be generated before downloading the complete package."
ZipFailedMsg == "Failed to create ZIP file. Please try again."
CompleteFailedMsg == "Failed to create complete package. Please try again."
NoArchive == [made |-> FALSE, files |-> {}]

\* scenes.every(scene => scene.imageAUrl && scene.imageBUrl)
areAllImagesGenerated(sb) ==
    \A k \in DOMAIN sb.scenes :
       sb.scenes[k].imageAUrl # Unset /\ sb.scenes[k].imageBUrl # Unset

\* the image files a complete archive of sb holds
SceneFiles(sb) == {<<sb.scenes[k].id, img>> : k \in DOMAIN sb.scenes, img \in {"A", "B"}}

\* downloadImagesAsZip: every image that is set and can be fetched is added, a fetch
\* that fails is logged and skipped; only an error outside these inner catches
\* (folder creation, generateAsync) rejects. fetchable: the files whose fetch works.
downloadImagesAsZip(sb, fetchable, generates) ==
    LET added == {f \in fetchable :
                     \E k \in DOMAIN sb.scenes :
                        /\ sb.scenes[k].id = f[1]
                        /\ IF f[2] = "A" THEN sb.scenes[k].imageAUrl # Unset
                                         ELSE sb.scenes[k].imageBUrl # Unset}
    IN IF generates
       THEN [status |-> "resolved", archive |-> [made |-> TRUE, files |-> added]]
       ELSE [status |-> "rejected", archive |-> NoArchive]

\* handleDownloadZip of the DownloadSection rendered with sb
handleDownloadZip(sb, fetchable, generates) ==
    IF ~areAllImagesGenerated(sb)
    THEN [downloadError |-> WaitForImagesZip, archive |-> NoArchive]
    ELSE LET r == downloadImagesAsZip(sb, fetchable, generates)
         IN [downloadError |-> IF r.status = "rejected" THEN ZipFailedMsg ELSE NoErrorState,
             archive |-> r.archive]

\* handleDownloadComplete: the same guard, then the document and the archive together
handleDownloadComplete(sb, fetchable, generates) ==
    IF ~areAllImagesGenerated(sb)
    THEN [downloadError |-> WaitForImagesComplete, archive |-> NoArchive]
    ELSE LET r == downloadImagesAsZip(sb, fetchable, generates)
         IN [downloadError |-> IF r.status = "rejected" THEN CompleteFailedMsg ELSE NoErrorState,
             archive |-> r.archive]

PdfFailedMsg == "Failed to generate PDF. Please try again."
NoDocument == [made |-> FALSE, scenes |-> <<>>, images |-> {}]

\* an image of a scene is added when its url is set and urlToBase64 gives its data
\* (a fetch that fails gives '', an addImage that throws is caught and logged)
PdfImagesSkipUnset(sb, fetchable) ==
    {f \in fetchable :
        \E k \in DOMAIN sb.scenes :
           /\ sb.scenes[k].id = f[1]
           /\ IF f[2] = "A" THEN sb.scenes[k].imageAUrl # Unset
                            ELSE sb.scenes[k].imageBUrl # Unset}

\* an export that waits for the images as the archive handlers do
downloadStoryboardAsPDFGuarded(sb, fetchable, saves) ==
    IF sb.bible = 0 \/ ~saves \/ ~areAllImagesGenerated(sb)
    THEN [status |-> "rejected", document |-> NoDocument]
    ELSE [status |-> "resolved",
          document |-> [made |-> TRUE,
                        scenes |-> [k \in DOMAIN sb.scenes |-> sb.scenes[k].id],
                        images |-> PdfImagesSkipUnset(sb, fetchable)]]

\* downloadStoryboardAsPDF: the bible section reads consistencyBible, the scene loop
\* writes the text of every scene and the images it has, pdf.save ends it; whatever
\* is thrown outside the inner catches rejects with 'Failed to generate PDF'
downloadStoryboardAsPDF(sb, fetchable, saves) ==
    IF sb.bible = 0 \/ ~saves
    THEN [status |-> "rejected", document |-> NoDocument]
    ELSE [status |-> "resolved",
          document |-> [made |-> TRUE,
                        scenes |-> [k \in DOMAIN sb.scenes |-> sb.scenes[k].id],
                        images |-> PdfImagesSkipUnset(sb, fetchable)]]

\* handleDownloadPDF of the DownloadSection rendered with sb: no guard on the images
handleDownloadPDF(sb, fetchable, saves) ==
    LET r == downloadStoryboardAsPDF(sb, fetchable, saves)
    IN [downloadError |-> IF r.status = "rejected" THEN PdfFailedMsg ELSE NoErrorState,
        document |-> r.document]

\* ------------------------------------------- the retry wrapper on its own
IdleRw ==
    [status |-> "idle", maxRetries |-> 0, attempt |-> 0, lastError |-> NoError,
     thrown |-> NoError, calls |-> 0, trace |-> <<>>, waits |-> <<>>]

WrapperOutcomes == {"ok", NoImageMsg, ForbiddenMsg, NotFoundMsg}

\* generateSceneImageWithRetry(..., maxRetries) is called
RwCall ==
    /\ rw.status = "idle"
    /\ \E m \in 0..MaxRetriesArg :
          rw' = IF 1 <= m
                THEN [IdleRw EXCEPT !.status = "pending", !.maxRetries = m, !.attempt = 1, !.calls = 1]
                ELSE [IdleRw EXCEPT !.status = "rejected", !.maxRetries = m, !.attempt = 1,
                                    !.thrown = Err(RetriesGenericMsg, 0)]
    /\ UNCHANGED <<appVars, svc>>

\* generateSceneImage of the current attempt settles
RwReply ==
    /\ rw.status = "pending"
    /\ \E o \in WrapperOutcomes :
          LET r == generateSceneImageWithRetry(rw, o)
          IN rw' = [rw EXCEPT !.status = r.status, !.attempt = r.attempt,
                              !.lastError = r.lastError, !.thrown = r.thrown,
                              !.calls = IF r.status = "pending" THEN @ + 1 ELSE @,
                              !.trace = Append(@, o),
                              !.waits = IF r.wait > 0 THEN Append(@, r.wait) ELSE @]
    /\ UNCHANGED <<appVars, svc>>

\* ------------------------------------------------- the store on its own
\* patches of the queue (a flag, the attempt tag, an image with its flag, a failed
\* flag), and scene ids: the first, the last a plan can have, and one beyond
Patches ==
    <<[isGeneratingImage |-> TRUE], [retryAttempt |-> 2],
      [imageAUrl |-> Image(1, 1), imageAFailed |-> FALSE], [imageBFailed |-> TRUE]>>
PatchIds == {1, MaxScenes, MaxScenes + 1}

\* replace-whole: setStoryboard(data); storyboardRef.current = data
StoreReplace ==
    /\ \E n \in 1..MaxScenes :
          /\ storyboard' = AnalysedPlan(1, n)
          /\ storyboardRef' = [current |-> AnalysedPlan(1, n)]
    /\ UNCHANGED <<isAnalyzing, error, characterImage, isGeneratingCharacterSheet, hasApiKey,
                   checkingKey, gen, queue, sessions, failures, rw, svc>>

\* attach-reference-sheet: setStoryboard(prev => prev ? {...prev, characterReferenceSheet} : null)
StoreAttach ==
    /\ ~storyboard.isNull
    /\ \E side \in BOOLEAN :
          storyboard' = [storyboard EXCEPT
                            !.sheet = [attached |-> TRUE, front |-> TRUE, side |-> side, back |-> TRUE]]
    /\ UNCHANGED <<storyboardRef, isAnalyzing, error, characterImage, isGeneratingCharacterSheet,
                   hasApiKey, checkingKey, gen, queue, sessions, failures, rw, svc>>

\* patch-scene-by-id: updateSceneInState(id, updates), its updater applied
StorePatch ==
    /\ \E id \in PatchIds, u \in DOMAIN Patches :
          LET st == updateSceneInState(Store, id, Patches[u])
          IN /\ storyboard' = st.sb
             /\ storyboardRef' = [current |-> st.ref]
    /\ UNCHANGED <<isAnalyzing, error, characterImage, isGeneratingCharacterSheet, hasApiKey,
                   checkingKey, gen, queue, sessions, failures, rw, svc>>

\* ------------------------------------------ the service functions alone
\* one call of a service function, and for the prompt a second construction after it
\* repeated: prevInput and prevOut hold the call made before this one
IdleSvc ==
    [fn |-> "idle", input |-> 0, out |-> 0, repeated |-> FALSE, prevInput |-> 0, prevOut |-> 0]

\* a part of a candidate: 0 is a text part, k > 0 a part with inline image data k
PartKinds == 0..2
Candidates == UNION {[1..k -> PartKinds] : k \in 0..MaxParts}
\* response.candidates || []
Responses == UNION {[1..c -> Candidates] : c \in 0..MaxCandidates}

\* `data:${part.inlineData.mimeType};base64,${part.inlineData.data}`
DataUrl(data) == <<"data:", "image/png", ";base64,", data>>
NoUrl == <<>>

\* the loop over candidate.content.parts up to its first inline image: its url, or NoUrl
RECURSIVE ScanParts(_, _)
ScanParts(parts, k) ==
    IF k > Len(parts) THEN NoUrl
    ELSE IF parts[k] # 0 THEN DataUrl(parts[k])
    ELSE ScanParts(parts, k + 1)

\* the loops of generateSceneImage and createCharacter: return at the first image
RECURSIVE ScanAndReturn(_, _)
ScanAndReturn(response, c) ==
    IF c > Len(response) THEN NoUrl
    ELSE IF ScanParts(response[c], 1) # NoUrl THEN ScanParts(response[c], 1)
    ELSE ScanAndReturn(response, c + 1)

\* the loops of a reference-sheet view: the image is assigned to results[viewName]
\* and break leaves the loop over the parts; the loop over the candidates goes on
RECURSIVE ScanAndAssign(_, _, _)
ScanAndAssign(response, c, result) ==
    IF c > Len(response) THEN result
    ELSE ScanAndAssign(response, c + 1,
                       IF ScanParts(response[c], 1) # NoUrl
                       THEN ScanParts(response[c], 1) ELSE result)

\* generateSceneImage once generateContent has returned
generateSceneImage(response) ==
    LET url == ScanAndReturn(response, 1)
    IN IF url # NoUrl THEN [status |-> "resolved", msg |-> "", image |-> url]
       ELSE [status |-> "rejected", msg |-> NoImageMsg, image |-> NoUrl]

\* createCharacter once generateContent has returned
createCharacter(response) ==
    LET url == ScanAndReturn(response, 1)
    IN IF url # NoUrl THEN [status |-> "resolved", msg |-> "", image |-> url]
       ELSE [status |-> "rejected", msg |-> NoCharacterMsg, image |-> NoUrl]

\* one turn of the while loop of a view of createCharacterReferenceSheet once
\* generateContent has returned: results[viewName], '' (NoUrl) before the turn
createCharacterReferenceSheetView(response) ==
    [status |-> "resolved", msg |-> "", image |-> ScanAndAssign(response, 1, NoUrl)]

SvcSceneImage ==
    /\ svc.fn = "idle"
    /\ \E response \in Responses :
          svc' = [IdleSvc EXCEPT !.fn = "generateSceneImage", !.input = response,
                                 !.out = generateSceneImage(response)]
    /\ UNCHANGED <<appVars, rw>>

SvcCharacter ==
    /\ svc.fn = "idle"
    /\ \E response \in Responses :
          svc' = [IdleSvc EXCEPT !.fn = "createCharacter", !.input = response,
                                 !.out = createCharacter(response)]
    /\ UNCHANGED <<appVars, rw>>

SvcSheetView ==
    /\ svc.fn = "idle"
    /\ \E response \in Responses :
          svc' = [IdleSvc EXCEPT !.fn = "createCharacterReferenceSheet", !.input = response,
                                 !.out = createCharacterReferenceSheetView(response)]
    /\ UNCHANGED <<appVars, rw>>

\* VISUAL_STYLE_PROMPT
VisualStylePrompt == "VISUAL STYLE (STRICT ENFORCEMENT): ..."
ReferenceLine == "Use the following character image as a reference for the character in the scene:\n[IMAGE]\n"

\* variant: the reference image itself is written into the prompt
fullPromptWithImageData(description, consistencyContext, referenceImage) ==
    <<VisualStylePrompt, "CONSISTENCY CONTEXT:", consistencyContext,
      IF referenceImage # 0 THEN <<ReferenceLine, referenceImage>> ELSE <<"">>,
      "SCENE DESCRIPTION:", description>>

\* fullPrompt of generateSceneImage; referenceImage (the characterImage parameter) 0 is null, undefined or ''
fullPrompt(description, consistencyContext, referenceImage) ==
    <<VisualStylePrompt, "CONSISTENCY CONTEXT:", consistencyContext,
      IF referenceImage # 0 THEN <<ReferenceLine>> ELSE <<"">>,
      "SCENE DESCRIPTION:", description>>

Descriptions == {"The fox enters the clearing.", "The fox sits down."}
Contexts == {ConsistencyContext(bible) : bible \in 1..2}
CharacterImages == 0..2

\* generateSceneImage builds its prompt
SvcPrompt ==
    /\ svc.fn = "idle" \/ (svc.fn = "fullPrompt" /\ ~svc.repeated)
    /\ \E d \in Descriptions, c \in Contexts, img \in CharacterImages :
          svc' = [fn |-> "fullPrompt",
                  input |-> [description |-> d, consistencyContext |-> c,
                             characterImage |-> img],
                  out |-> fullPrompt(d, c, img),
                  repeated |-> (svc.fn = "fullPrompt"),
                  prevInput |-> IF svc.fn = "fullPrompt" THEN svc.input ELSE 0,
                  prevOut |-> IF svc.fn = "fullPrompt" THEN svc.out ELSE 0]
    /\ UNCHANGED <<appVars, rw>>

\* variant: a scene counts twice as soon as it has image A
RECURSIVE CountGeneratedByImageA(_, _)
CountGeneratedByImageA(scenes, k) ==
    IF k > Len(scenes) THEN 0
    ELSE (IF scenes[k].imageAUrl # Unset THEN 2 ELSE 0) + CountGeneratedByImageA(scenes, k + 1)

\* scenes.reduce((count, scene) => count + (imageAUrl ? 1 : 0) + (imageBUrl ? 1 : 0), 0)
\* from scene k on
RECURSIVE CountGenerated(_, _)
CountGenerated(scenes, k) ==
    IF k > Len(scenes) THEN 0
    ELSE (IF scenes[k].imageAUrl # Unset THEN 1 ELSE 0)
         + (IF scenes[k].imageBUrl # Unset THEN 1 ELSE 0)
         + CountGenerated(scenes, k + 1)

getGeneratedImagesCount(sb) ==
    [total |-> Len(sb.scenes) * 2, generated |-> CountGenerated(sb.scenes, 1)]

\* the storyboards of up to MaxScenes scenes, each image set or not
ImageStates == {Unset, Image(1, 1)}
Storyboards ==
    UNION {{[isNull |-> FALSE, bible |-> 1, sheet |-> NoSheet,
             scenes |-> [k \in 1..n |-> [NewScene(k) EXCEPT !.imageAUrl = a[k],
                                                            !.imageBUrl = b[k]]]] :
              a \in [1..n -> ImageStates], b \in [1..n -> ImageStates]} : n \in 0..MaxScenes}

\* the DownloadSection computes its two progress views of a storyboard
SvcProgress ==
    /\ svc.fn = "idle"
    /\ \E sb \in Storyboards :
          svc' = [IdleSvc EXCEPT !.fn = "progress", !.input = sb,
                                 !.out = [all |-> areAllImagesGenerated(sb),
                                          count |-> getGeneratedImagesCount(sb)]]
    /\ UNCHANGED <<appVars, rw>>

IdSequences == UNION {[1..n -> 1..MaxScenes] : n \in 0..MaxScenes}
AnalysisPayloads ==
    {EmptyText, NotJson} \cup {JsonPlan(b, ids) : b \in 0..1, ids \in IdSequences}

SvcAnalysis ==
    /\ svc.fn = "idle"
    /\ \E payload \in AnalysisPayloads :
          svc' = [IdleSvc EXCEPT !.fn = "analysis", !.input = payload,
                                 !.out = generateStoryboardAnalysis(payload)]
    /\ UNCHANGED <<appVars, rw>>

\* ------------------------------------------------------- specifications
Init ==
    /\ storyboard = NullStoryboard
    /\ storyboardRef = [current |-> NullStoryboard]
    /\ isAnalyzing = FALSE
    /\ error = NoErrorState
    /\ characterImage = 0
    /\ isGeneratingCharacterSheet = FALSE
    /\ hasApiKey = FALSE
    /\ checkingKey = TRUE
    /\ gen = IdleGen
    /\ queue = [s \in Sessions |-> IdleQueue]
    /\ sessions = 0
    /\ failures = 0
    /\ rw = IdleRw
    /\ svc = IdleSvc

Next ==
    \/ CheckKey
    \/ HandleSelectKey
    \/ HandleGenerate
    \/ AnalysisReply
    \/ CharacterReply
    \/ SheetReply
    \/ \E p \in Sessions : RetryAttempt(p)
    \/ \E p \in Sessions : FirstPassImageA(p)
    \/ \E p \in Sessions : FirstPassImageB(p)
    \/ \E p \in Sessions : RepairImageA(p)
    \/ \E p \in Sessions : RepairImageB(p)

Spec == Init /\ [][Next]_vars


NextRetry == RwCall \/ RwReply

RetrySpec == Init /\ [][NextRetry]_vars

NextStore == StoreReplace \/ StoreAttach \/ StorePatch

StoreSpec == Init /\ [][NextStore]_vars

NextService ==
    \/ SvcAnalysis
    \/ SvcSceneImage
    \/ SvcCharacter
    \/ SvcSheetView
    \/ SvcPrompt
    \/ SvcProgress

ServiceSpec == Init /\ [][NextService]_vars

\* ---------------------------------------------------------- properties
Generating(sb) == {k \in DOMAIN sb.scenes : sb.scenes[k].isGeneratingImage}

\* the store holds the StoryboardData that queue p was started with
OwnStore(p) == ~storyboard.isNull /\ storyboard.bible = p

FirstPassIssued(q, i, img) == [pass |-> 1, id |-> SceneId(q, i), img |-> img] \in q.issued

\* C1: once an attempt of a queue failed with an authorization signal, the queue has
\* stopped: it has no image request in flight (none for that scene, for a later
\* scene, or in the repair pass).
C1_AuthorizationStopsQueue ==
    \A p \in Sessions : queue[p].authFailed => queue[p].pc \notin InFlight

\* C2: the step in which an attempt of a queue fails with an authorization signal
\* sets the error state to the permission-denied message, resets hasApiKey and
\* leaves no scene with isGeneratingImage = true.
C2_AuthorizationSetsErrorState ==
    [][\A p \in Sessions :
          (~queue[p].authFailed /\ queue'[p].authFailed)
             => /\ error' = PermissionDeniedQueue
                /\ hasApiKey' = FALSE
                /\ Generating(storyboard') = {}]_vars

\* C3: when a queue has finished (first pass, then repair pass), every scene of its
\* StoryboardData has both images or carries a failed flag.
C3_RepairPassCompleteness ==
    \A p \in Sessions :
       (queue[p].pc = "done" /\ OwnStore(p))
          => \A k \in DOMAIN storyboard.scenes :
                LET s == storyboard.scenes[k]
                IN \/ s.imageAUrl # Unset /\ s.imageBUrl # Unset
                   \/ s.imageAFailed \/ s.imageBFailed

\* a finished queue whose first scene still lacks image A, flagged, after both passes
C3_Witness ==
    \E p \in Sessions :
       /\ queue[p].pc = "done" /\ OwnStore(p)
       /\ storyboard.scenes[1].imageAUrl = Unset
       /\ storyboard.scenes[1].imageAFailed
       /\ [pass |-> 2, id |-> 1, img |-> "A"] \in queue[p].issued

\* C4: while a queue is in its first pass or in its repair pass, at most one scene
\* of the store has isGeneratingImage = true.
C4_AtMostOneGenerating ==
    (\E p \in Sessions : queue[p].pc \in InFlight /\ ~storyboard.isNull)
       => Cardinality(Generating(storyboard)) <= 1

\* C5: no two scene-image queues are active at the same time.
C5_NoTwoPipelines ==
    Cardinality({p \in Sessions : queue[p].pc \in InFlight}) <= 1

\* C6: with maxRetries >= 1 the wrapper invokes the image operation at most
\* maxRetries times: exactly k times when attempt k is the first to succeed, with
\* no call after it, and exactly maxRetries times when every attempt fails.
C6_RetryBound ==
    rw.maxRetries >= 1 =>
       /\ rw.calls <= rw.maxRetries
       /\ rw.status = "resolved" =>
             \E k \in 1..rw.maxRetries :
                /\ Len(rw.trace) = k /\ rw.trace[k] = "ok"
                /\ \A j \in 1..(k - 1) : rw.trace[j] # "ok"
                /\ rw.calls = k
       /\ rw.status = "rejected" =>
             /\ \A j \in 1..Len(rw.trace) : rw.trace[j] # "ok"
             /\ rw.calls = rw.maxRetries
       /\ rw.status = "pending" => rw.calls = Len(rw.trace) + 1

\* every one of three attempts failed
C6_Witness ==
    rw.status = "rejected" /\ rw.maxRetries = 3 /\ rw.calls = 3

\* C7: when all attempts fail the wrapper rejects with the error of the last attempt.
C7_RethrowsLastError ==
    (rw.status = "rejected" /\ rw.maxRetries >= 1)
       => rw.thrown = Err(rw.trace[Len(rw.trace)], rw.maxRetries)

\* three failed attempts whose first and last errors differ
C7_Witness ==
    /\ rw.status = "rejected" /\ rw.maxRetries = 3
    /\ rw.trace[1] = ForbiddenMsg /\ rw.trace[3] = NoImageMsg

SettlesRejected(p) ==
    /\ queue[p].pc \in InFlight
    /\ <<queue'[p].pc, queue'[p].i, queue'[p].j>> # <<queue[p].pc, queue[p].i, queue[p].j>>
    /\ queue'[p].settle = "rejected"

\* the scene and image the in-flight call of queue p is for
CurrentId(q) == IF q.pc \in {"firstA", "firstB"} THEN SceneId(q, q.i) ELSE q.missing[q.j].id
CurrentIsA(q) == q.pc \in {"firstA", "repairA"}

\* C9: a scene-image call that exhausts its retries with a non-authorization error is
\* recorded as the failed flag of that image only: the queue goes on (or ends
\* normally), no image is touched, error and hasApiKey are left as they were.
C9_FailureIsSceneLocal ==
    [][\A p \in Sessions :
          (SettlesRejected(p) /\ ~IsAuthorizationSignal(queue'[p].thrown.msg))
             => /\ error' = error
                /\ hasApiKey' = hasApiKey
                /\ queue'[p].pc \in InFlight \cup {"done"}
                /\ DOMAIN storyboard'.scenes = DOMAIN storyboard.scenes
                /\ \A k \in DOMAIN storyboard.scenes :
                      /\ storyboard'.scenes[k].imageAUrl = storyboard.scenes[k].imageAUrl
                      /\ storyboard'.scenes[k].imageBUrl = storyboard.scenes[k].imageBUrl
                      /\ storyboard.scenes[k].id = CurrentId(queue[p]) =>
                            IF CurrentIsA(queue[p])
                            THEN storyboard'.scenes[k].imageAFailed
                            ELSE storyboard'.scenes[k].imageBFailed]_vars

\* a call was rejected with "No image generated.": the flag is set, no error is shown
C9_Witness ==
    \E p \in Sessions :
       /\ queue[p].settle = "rejected" /\ queue[p].thrown.msg = NoImageMsg
       /\ OwnStore(p) /\ storyboard.scenes[1].imageAFailed
       /\ error = NoErrorState /\ hasApiKey

\* C10: during a run no step clears or replaces an image that is set.
C10_ImagesAreKept ==
    [][(~storyboard.isNull /\ ~storyboard'.isNull /\ storyboard'.bible = storyboard.bible)
          => \A k \in DOMAIN storyboard.scenes :
                /\ storyboard.scenes[k].imageAUrl # Unset =>
                      storyboard'.scenes[k].imageAUrl = storyboard.scenes[k].imageAUrl
                /\ storyboard.scenes[k].imageBUrl # Unset =>
                      storyboard'.scenes[k].imageBUrl = storyboard.scenes[k].imageBUrl]_vars

\* the first-pass requests of a queue, and the place of one in plan order
FirstPassRequests(q) == {e \in q.issued : e.pass = 1}
FirstPassOrder(id, img) == 2 * (id - 1) + (IF img = "A" THEN 1 ELSE 2)

\* C11: the first-pass requests of a queue are issued one at a time in the order
\* scene1.A, scene1.B, scene2.A, ...: the k-th request issued is the k-th of that
\* order, image B is issued in the step in which the image-A call of the same scene
\* settles, and image A of a later scene in the step in which the image-B call of
\* the scene before it settles.
C11_FirstPassSequential ==
    [][\A p \in Sessions :
          LET new == FirstPassRequests(queue'[p]) \ FirstPassRequests(queue[p])
          IN \A e \in new :
                /\ new = {e}
                /\ FirstPassOrder(e.id, e.img) = Cardinality(FirstPassRequests(queue[p])) + 1
                /\ e.img = "B" =>
                      /\ queue[p].pc = "firstA" /\ SceneId(queue[p], queue[p].i) = e.id
                      /\ queue'[p].settle \in {"resolved", "rejected"}
                      /\ queue'[p].pc = "firstB"
                /\ (e.img = "A" /\ e.id > 1) =>
                      /\ queue[p].pc = "firstB" /\ SceneId(queue[p], queue[p].i) = e.id - 1
                      /\ queue'[p].settle \in {"resolved", "rejected"}
                      /\ queue'[p].pc = "firstA"
                /\ (e.img = "A" /\ e.id = 1) => queue[p].pc = "idle"]_vars

\* image B of the second scene is in flight, the fourth request of the first pass,
\* after image A of the first scene exhausted its retries
C11_Witness ==
    \E p \in Sessions :
       /\ queue[p].pc = "firstB" /\ queue[p].i = 2
       /\ Cardinality(FirstPassRequests(queue[p])) = 4
       /\ OwnStore(p) /\ storyboard.scenes[1].imageAFailed

\* C12: a queue issues a repair-pass request (retryAttempt 3 or 4) only once its
\* first pass is over: both images of every scene of the plan were requested and
\* the last of these calls has settled.
C12_RepairFollowsFirstPass ==
    \A p \in Sessions :
       LET q == queue[p]
       IN (\E e \in q.issued : e.pass = 2) =>
             /\ \A i \in 1..q.n : FirstPassIssued(q, i, "A") /\ FirstPassIssued(q, i, "B")
             /\ q.pc \notin {"idle", "firstA", "firstB"}
             /\ q.i = q.n

\* a repair-pass request for image A of the second scene is in flight
C12_Witness ==
    \E p \in Sessions :
       /\ queue[p].pc = "repairA" /\ queue[p].n = 2
       /\ [pass |-> 2, id |-> 2, img |-> "A"] \in queue[p].issued

\* an upper bound on the backend calls a queue can still make, the one in flight
\* included; the repair pass works on the scenes of the store, at most MaxScenes
CallsLeft(q) ==
    LET thisCall == q.maxRetries - q.attempt + 1
    IN CASE q.pc = "firstA" ->
               thisCall + FirstPassMaxRetries + (q.n - q.i) * 2 * FirstPassMaxRetries
                        + MaxScenes * 2 * RepairMaxRetries
         [] q.pc = "firstB" ->
               thisCall + (q.n - q.i) * 2 * FirstPassMaxRetries + MaxScenes * 2 * RepairMaxRetries
         [] q.pc = "repairA" ->
               thisCall + RepairMaxRetries + (Len(q.missing) - q.j) * 2 * RepairMaxRetries
         [] q.pc = "repairB" ->
               thisCall + (Len(q.missing) - q.j) * 2 * RepairMaxRetries
         [] OTHER -> 0

\* C13: a queue that has started finishes, whatever calls fail, provided each backend
\* call returns or fails: every call that comes back lowers the number of calls the
\* queue can still make, which is never negative and is 0 only when it has finished.
\* The queue makes one first pass in plan order and one repair pass over the scenes
\* found missing when the first pass ended, and a finished queue issues nothing more.
C13_PipelineTerminates ==
    [][\A p \in Sessions :
          LET q == queue[p]
              r == queue'[p]
              retried == r.pc = q.pc /\ r.i = q.i /\ r.j = q.j /\ r.attempt = q.attempt + 1
                         /\ r.attempt <= q.maxRetries /\ r.issued = q.issued
          IN /\ q.pc = "done" => r = q
             /\ (q.pc \in InFlight /\ r # q) =>
                   /\ CallsLeft(r) < CallsLeft(q)
                   /\ CallsLeft(r) >= 0
                   /\ CallsLeft(r) = 0 <=> r.pc = "done"
             /\ (q.pc \in {"firstA", "firstB"} /\ r # q) =>
                   \/ retried
                   \/ q.pc = "firstA" /\ r.pc = "firstB" /\ r.i = q.i
                   \/ q.pc = "firstB" /\ r.pc = "firstA" /\ r.i = q.i + 1
                   \/ q.pc = "firstB" /\ q.i = q.n /\ r.pc \in {"repairA", "repairB", "done"}
                         /\ r.i = q.i
             /\ (q.pc \in {"repairA", "repairB"} /\ r # q) =>
                   /\ r.missing = q.missing /\ r.i = q.i
                   /\ \/ retried
                      \/ q.pc = "repairA" /\ r.pc = "repairB" /\ r.j = q.j
                      \/ r.pc \in {"repairA", "repairB"} /\ r.j > q.j /\ r.j <= Len(q.missing)
                      \/ r.pc = "done" /\ r.j = Len(q.missing) + 1]_vars

\* a queue has finished after a repair pass over two scenes, the first still without image A
C13_Witness ==
    \E p \in Sessions :
       /\ queue[p].pc = "done" /\ Len(queue[p].missing) = 2 /\ queue[p].j = 3
       /\ OwnStore(p) /\ storyboard.scenes[1].imageAUrl = Unset

\* C14: when a queue finishes and no backend call has failed, every scene has both
\* images, no failed flag and no generating flag, and the queue made exactly one
\* request per image (2N, none in the repair pass).
C14_AllSucceed ==
    \A p \in Sessions :
       (queue[p].pc = "done" /\ failures = 0 /\ sessions = 1 /\ OwnStore(p))
          => /\ \A k \in DOMAIN storyboard.scenes :
                   LET s == storyboard.scenes[k]
                   IN /\ s.imageAUrl # Unset /\ s.imageBUrl # Unset
                      /\ ~s.imageAFailed /\ ~s.imageBFailed
                      /\ ~s.isGeneratingImage
             /\ \A e \in queue[p].issued : e.pass = 1
             /\ Cardinality(queue[p].issued) = 2 * queue[p].n

\* the DownloadSection is rendered
DownloadShown == Mounted /\ ~storyboard.isNull /\ ~isAnalyzing

\* C15: an archive export requested while a scene lacks an image fails with an error
\* reported to the caller and makes no archive, in the handlers and in the archive
\* generator itself; an archive that is made holds both images of every scene.
C15_ExportPrecondition ==
    DownloadShown =>
       \A fetchable \in SUBSET SceneFiles(storyboard), generates \in BOOLEAN :
          LET zip == handleDownloadZip(storyboard, fetchable, generates)
              all == handleDownloadComplete(storyboard, fetchable, generates)
              made == downloadImagesAsZip(storyboard, fetchable, generates)
          IN /\ ~areAllImagesGenerated(storyboard) =>
                   /\ zip.downloadError # NoErrorState /\ ~zip.archive.made
                   /\ all.downloadError # NoErrorState /\ ~all.archive.made
                   /\ made.status = "rejected" /\ ~made.archive.made
             /\ made.archive.made => made.archive.files = SceneFiles(storyboard)

\* the scenes that lack an image in sb, as retryMissingImages lists them
MissingIn(sb) == IF sb.isNull THEN <<>> ELSE SelectSeq(Snapshot(sb.scenes), IsMissing)

\* C16: after every step that writes the store the shadow reference equals the live
\* StoryboardData, and retryMissingImages, the task that reads the shadow reference,
\* finds in it the latest scene list: the scenes it takes as missing are the scenes
\* that lack an image in the store.
C16_ShadowReference ==
    [][/\ storyboardRef'.current = storyboard'
       /\ \A p \in Sessions :
             (queue[p].pc = "firstB" /\ queue'[p].pc \in {"repairA", "repairB", "done"})
                => queue'[p].missing = MissingIn(storyboard')]_vars

\* C17: for every store, updateSceneInState(id, updates) sets the given fields of the
\* scenes whose id matches and nothing else: the number, order and ids of the
\* scenes, the other scenes, the other fields of the target, the bible and the
\* reference sheet stay; with no matching id, or an empty store, the store is unchanged.
C17_PatchFrame ==
    \A id \in PatchIds, u \in DOMAIN Patches :
       LET updates == Patches[u]
           old == storyboard
           new == updateSceneInState(Store, id, updates).sb
       IN /\ new.isNull = old.isNull
          /\ new.bible = old.bible
          /\ new.sheet = old.sheet
          /\ DOMAIN new.scenes = DOMAIN old.scenes
          /\ \A k \in DOMAIN old.scenes :
                /\ DOMAIN new.scenes[k] = DOMAIN old.scenes[k]
                /\ new.scenes[k].id = old.scenes[k].id
                /\ \A f \in DOMAIN old.scenes[k] :
                      new.scenes[k][f] = IF old.scenes[k].id = id /\ f \in DOMAIN updates
                                         THEN updates[f]
                                         ELSE old.scenes[k][f]
          /\ (\A k \in DOMAIN old.scenes : old.scenes[k].id # id) => new = old

\* the last scene has been patched (generating, attempt 2) next to a first scene
\* that holds an image and was left alone by these patches
C17_Witness ==
    /\ ~storyboard.isNull /\ Len(storyboard.scenes) = MaxScenes
    /\ storyboard.scenes[MaxScenes].isGeneratingImage
    /\ storyboard.scenes[MaxScenes].retryAttempt = 2
    /\ storyboard.scenes[1].imageAUrl # Unset /\ ~storyboard.scenes[1].isGeneratingImage
    /\ storyboard.sheet.attached

\* C18: in every store state no scene has an image set together with the failed
\* flag of that image.
C18_NoImageWithFailedFlag ==
    ~storyboard.isNull =>
       \A k \in DOMAIN storyboard.scenes :
          LET s == storyboard.scenes[k]
          IN /\ ~(s.imageAUrl # Unset /\ s.imageAFailed)
             /\ ~(s.imageBUrl # Unset /\ s.imageBFailed)

\* C19: createCharacterReferenceSheet makes at most 3 backend calls for a view,
\* whether the calls throw or come back without an image.
C19_SheetCallsBounded ==
    gen.pc = "sheet" => gen.calls <= SheetMaxRetries

\* C20: a step of createCharacterReferenceSheet never fails the caller and never drops
\* a view: no error is shown, the views are taken in the order front, side, back, a
\* view that ends is non-empty exactly when its last call brought an image, with
\* the other views as they were, and after the third view the sheet so built is
\* attached to the store and the scene queue starts.
C20_SheetNeverFatal ==
    [][(gen.pc = "sheet" /\ gen' # gen) =>
          LET cur == Views[gen.view]
              got == failures' = failures
              built == [gen.results EXCEPT ![cur] = got]
          IN /\ error' = error /\ hasApiKey' = hasApiKey
             /\ gen'.pc = "sheet" =>
                   /\ gen'.view \in {gen.view, gen.view + 1}
                   /\ gen'.view = gen.view => (gen'.results = gen.results /\ ~got)
                   /\ gen'.view = gen.view + 1 => gen'.results = built
             /\ gen'.pc # "sheet" =>
                   /\ gen'.pc = "idle" /\ gen.view = Len(Views)
                   /\ ~isAnalyzing' /\ ~isGeneratingCharacterSheet'
                   /\ queue'[gen.sess].pc = "firstA"
                   /\ ~storyboard'.isNull
                   /\ storyboard'.sheet = [built EXCEPT !.attached = TRUE]]_vars

\* the sheet was attached with the side view empty, after its three calls threw, and
\* the front and back views filled
C20_Witness ==
    /\ ~storyboard.isNull /\ storyboard.sheet.attached
    /\ storyboard.sheet.front /\ ~storyboard.sheet.side /\ storyboard.sheet.back

\* the payload is JSON with the members of a StoryboardData
MatchesShape(payload) == payload.kind = "json" /\ payload.bible # 0

\* C21: generateStoryboardAnalysis rejects when the payload is empty, is not
\* parseable, or parses without the expected shape, and the error of an empty
\* response differs from the error of a malformed payload.
C21_AnalysisRejectsBadPayload ==
    svc.fn = "analysis" =>
       /\ ~MatchesShape(svc.input) => svc.out.status = "rejected"
       /\ svc.input.kind = "empty" => svc.out.msg = EmptyResponseMsg
       /\ svc.input.kind # "empty" => svc.out.msg # EmptyResponseMsg

\* C22: when the analysis call of handleGenerate fails, the store and its shadow
\* reference are null, the error state holds the failure, isAnalyzing is false,
\* and no character, reference-sheet or scene-image request has been issued.
C22_AnalysisFailureFatal ==
    [][(gen.pc = "analysis" /\ gen'.pc = "idle") =>
          /\ storyboard'.isNull
          /\ storyboardRef'.current.isNull
          /\ error' # NoErrorState
          /\ ~isAnalyzing'
          /\ queue' = queue
          /\ characterImage' = characterImage
          /\ isGeneratingCharacterSheet' = isGeneratingCharacterSheet]_vars

\* the images of sb that are set
ImagesSet(sb) ==
    {f \in SceneFiles(sb) :
        \E k \in DOMAIN sb.scenes :
           /\ sb.scenes[k].id = f[1]
           /\ IF f[2] = "A" THEN sb.scenes[k].imageAUrl # Unset
                            ELSE sb.scenes[k].imageBUrl # Unset}

\* C23: whenever the download section shows a storyboard, a requested PDF export
\* proceeds whatever the state of the images: it reports no error and makes a
\* document with every scene and the images that are set (and can be fetched);
\* scenes without images, with failure flags or mid-generation are no error.
C23_PdfExportProceeds ==
    DownloadShown =>
       \A fetchable \in SUBSET SceneFiles(storyboard), saves \in BOOLEAN :
          LET r == handleDownloadPDF(storyboard, fetchable, saves)
          IN /\ r.document.made = saves
             /\ saves =>
                   /\ r.downloadError = NoErrorState
                   /\ Len(r.document.scenes) = Len(storyboard.scenes)
                   /\ \A k \in DOMAIN storyboard.scenes :
                         r.document.scenes[k] = storyboard.scenes[k].id
                   /\ r.document.images = fetchable \cap ImagesSet(storyboard)

\* the export is requested while the first scene, whose image A has failed, is
\* being generated and the second scene has no image yet
C23_Witness ==
    /\ DownloadShown
    /\ Len(storyboard.scenes) = 2
    /\ storyboard.scenes[1].imageAUrl = Unset /\ storyboard.scenes[1].imageAFailed
    /\ storyboard.scenes[1].isGeneratingImage
    /\ storyboard.scenes[2].imageAUrl = Unset
    /\ handleDownloadPDF(storyboard, SceneFiles(storyboard), TRUE).document.scenes = <<1, 2>>

\* C24: every scene-image request of one pipeline run, of either pass, carries the
\* consistency context built from the bible of the run's plan and the character
\* image created for the run.
C24_SharedContext ==
    \A p \in Sessions :
       \A e \in queue[p].sent :
          /\ e.consistencyContext = ConsistencyContext(AnalysedPlan(p, queue[p].n).bible)
          /\ e.characterImage = p

\* a run has issued requests in both passes after a later generate request has
\* replaced the character image of the App state
C24_Witness ==
    \E p \in Sessions :
       /\ \E e \in queue[p].issued : e.pass = 1
       /\ \E e \in queue[p].issued : e.pass = 2
       /\ Cardinality(queue[p].sent) = 1
       /\ characterImage # p

ImageCalls == {"generateSceneImage", "createCharacter", "createCharacterReferenceSheet"}

\* the positions of the inline images of a response, and the one a scan of the
\* candidates and their parts in order meets first
ImagePositions(response) ==
    {pos \in (DOMAIN response) \X (1..MaxParts) :
        pos[2] \in DOMAIN response[pos[1]] /\ response[pos[1]][pos[2]] # 0}
FirstPosition(response) ==
    CHOOSE pos \in ImagePositions(response) :
       \A other \in ImagePositions(response) :
          pos[1] < other[1] \/ (pos[1] = other[1] /\ pos[2] <= other[2])

\* C25: every image-producing call takes the first inline image of the response,
\* scanning the candidates and their parts in order; with no inline image
\* generateSceneImage and createCharacter throw and a sheet view has no image.
C25_FirstInlineImage ==
    svc.fn \in ImageCalls =>
       IF ImagePositions(svc.input) = {}
       THEN /\ svc.out.image = NoUrl
            /\ svc.fn = "generateSceneImage" =>
                  svc.out.status = "rejected" /\ svc.out.msg = NoImageMsg
            /\ svc.fn = "createCharacter" =>
                  svc.out.status = "rejected" /\ svc.out.msg = NoCharacterMsg
       ELSE LET pos == FirstPosition(svc.input)
            IN /\ svc.out.status = "resolved"
               /\ svc.out.image = DataUrl(svc.input[pos[1]][pos[2]])

\* C26: the StoryboardData an analysis result yields has exactly the scenes of the
\* result, and their ids are strictly increasing in the order of the analysis
\* (hence unique).
C26_SceneIdsIncreasing ==
    (svc.fn = "analysis" /\ svc.out.status = "resolved") =>
       LET scenes == svc.out.data.scenes
       IN /\ Len(scenes) = Len(svc.input.ids)
          /\ \A k, l \in DOMAIN scenes : k < l => scenes[k].id < scenes[l].id

\* the inputs of the prompt: description, consistency context and whether a
\* reference image is present (the style template is a constant)
PromptInputs(input) ==
    <<input.description, input.consistencyContext, input.characterImage # 0>>

CurrentRequest(q) ==
    [pass |-> IF q.pc \in {"firstA", "firstB"} THEN 1 ELSE 2,
     id |-> CurrentId(q), img |-> IF CurrentIsA(q) THEN "A" ELSE "B"]
CallSiteAttempts(q) ==
    IF q.pc \in {"firstA", "firstB"} THEN FirstPassMaxRetries ELSE RepairMaxRetries

\* a wrapper call of queue p begins in this step
BeginsCall(p) ==
    queue'[p] # queue[p] /\ queue'[p].pc \in InFlight /\ queue'[p].attempt = 1

\* C28: in one run the backend is called for a scene image at most 3 times in the
\* first pass and at most 2 times in the repair pass: a wrapper call makes one
\* backend call per attempt, its attempts stay within 3 (first pass) or 2 (repair
\* pass), and a run begins at most one wrapper call per image and pass; hence at
\* most 5 calls per image and 10 per scene.
C28_WorkPerImageBounded ==
    [][\A p \in Sessions :
          /\ queue'[p].pc \in InFlight =>
                /\ queue'[p].maxRetries = CallSiteAttempts(queue'[p])
                /\ 1 <= queue'[p].attempt /\ queue'[p].attempt <= queue'[p].maxRetries
                /\ (queue'[p] # queue[p] /\ ~BeginsCall(p)) =>
                      /\ queue'[p].attempt = queue[p].attempt + 1
                      /\ CurrentRequest(queue'[p]) = CurrentRequest(queue[p])
          /\ BeginsCall(p) =>
                /\ CurrentRequest(queue'[p]) \notin queue[p].issued
                /\ queue'[p].issued = queue[p].issued \cup {CurrentRequest(queue'[p])}]_vars

\* the fifth call for an image is in flight: the second attempt of the repair pass,
\* after a first pass that was requested for the same image
C28_Witness ==
    \E p \in Sessions :
       /\ queue[p].pc = "repairA"
       /\ queue[p].attempt = RepairMaxRetries
       /\ [pass |-> 1, id |-> CurrentId(queue[p]), img |-> "A"] \in queue[p].issued

\* image img of the scene with this id is unset in sb
UnsetIn(sb, id, img) ==
    \E k \in DOMAIN sb.scenes :
       /\ sb.scenes[k].id = id
       /\ IF img = "A" THEN sb.scenes[k].imageAUrl = Unset ELSE sb.scenes[k].imageBUrl = Unset

\* C29: the repair pass of a run retries exactly the images that are unset in the
\* store when the first pass ends: every image it takes as missing at that point is
\* unset in the store and every unset image is taken as missing, and a repair
\* request is never issued for an image that is set in the store.
C29_RepairExactlyMissing ==
    [][\A p \in Sessions :
          /\ (queue[p].pc = "firstB" /\ queue'[p].pc \in {"repairA", "repairB", "done"}
                /\ OwnStore(p)')
                => \A id \in 1..queue[p].n, img \in {"A", "B"} :
                      UnsetIn(storyboard', id, img)
                         <=> \E j \in DOMAIN queue'[p].missing :
                                /\ queue'[p].missing[j].id = id
                                /\ queue'[p].pc # "done"
                                /\ IF img = "A" THEN queue'[p].missing[j].imageAUrl = Unset
                                                ELSE queue'[p].missing[j].imageBUrl = Unset
          /\ (BeginsCall(p) /\ queue'[p].pc \in {"repairA", "repairB"} /\ OwnStore(p)')
                => UnsetIn(storyboard', CurrentId(queue'[p]),
                           IF CurrentIsA(queue'[p]) THEN "A" ELSE "B")]_vars

\* the retryAttempt tag of the phase a wrapper call belongs to
Phase(pc) ==
    CASE pc = "firstA" -> 1 [] pc = "firstB" -> 2 [] pc = "repairA" -> 3 [] pc = "repairB" -> 4

\* C30: while a request of a run for a scene image is in flight, retryAttempt of
\* that scene in the store of the run is the tag of the phase (1, 2 first pass A, B;
\* 3, 4 repair pass A, B), and retryAttempt of a scene never decreases while the
\* store holds the same plan.
C30_RetryAttemptPhase ==
    [][/\ \A p \in Sessions :
             (queue'[p].pc \in InFlight /\ OwnStore(p)')
                => \A k \in DOMAIN storyboard'.scenes :
                      storyboard'.scenes[k].id = CurrentId(queue'[p])
                         => storyboard'.scenes[k].retryAttempt = Phase(queue'[p].pc)
       /\ (~storyboard.isNull /\ ~storyboard'.isNull /\ storyboard'.bible = storyboard.bible)
             => \A k \in DOMAIN storyboard.scenes :
                   storyboard'.scenes[k].retryAttempt >= storyboard.scenes[k].retryAttempt]_vars

\* C31: in the store of a run, while a request for a scene is in flight exactly
\* that scene has isGeneratingImage = true (the flag of a scene whose pass has
\* ended, with or without its images, is cleared), and once the run has finished
\* no scene has isGeneratingImage = true.
C31_GeneratingFlagTracksScene ==
    \A p \in Sessions :
       OwnStore(p) =>
          /\ queue[p].pc \in InFlight =>
                {storyboard.scenes[k].id : k \in Generating(storyboard)}
                   = {CurrentId(queue[p])}
          /\ queue[p].pc = "done" => Generating(storyboard) = {}

\* the wait the backoff schedule 1000, 2000, 4000, 5000, 5000, ... has at place k
ScheduledWait(k) == CASE k = 1 -> 1000 [] k = 2 -> 2000 [] k = 3 -> 4000 [] OTHER -> 5000

\* C32: generateSceneImageWithRetry waits min(1000 * 2^(k-1), 5000) ms between
\* failed attempt k and attempt k+1: the waits of a call are 1000, 2000, 4000,
\* 5000, 5000, ... in this order, one per failed attempt that is not the last
\* one allowed, and none after the final failed attempt or after a success.
C32_BackoffSchedule ==
    rw.maxRetries >= 1 =>
       /\ \A k \in DOMAIN rw.waits : rw.waits[k] = ScheduledWait(k)
       /\ rw.status = "pending" => Len(rw.waits) = Len(rw.trace)
       /\ rw.status = "resolved" => Len(rw.waits) = Len(rw.trace) - 1
       /\ rw.status = "rejected" =>
             Len(rw.trace) = rw.maxRetries /\ Len(rw.waits) = rw.maxRetries - 1

\* a call that failed six times: the waits reached the cap twice and no wait
\* followed the last failure
C32_Witness ==
    /\ rw.status = "rejected" /\ rw.maxRetries = 6
    /\ rw.waits = <<1000, 2000, 4000, 5000, 5000>>

\* C33: when the analysis or the character creation of handleGenerate fails, the
\* failure reaches the error state and isAnalyzing is reset: an error that carries
\* an authorization signal sets the permission-denied message and hasApiKey =
\* false, any other error sets the error state to its message and leaves hasApiKey
\* as it was.
C33_GenerateFailurePropagates ==
    [][(gen.pc \in {"analysis", "character"} /\ gen'.pc = "idle") =>
          /\ gen'.thrown # ""
          /\ ~isAnalyzing'
          /\ IF gen'.thrown \in {ForbiddenMsg, NotFoundMsg}
             THEN error' = PermissionDeniedGenerate /\ hasApiKey' = FALSE
             ELSE error' = gen'.thrown /\ hasApiKey' = hasApiKey]_vars

\* createCharacter failed with an authorization signal after a successful analysis
C33_Witness ==
    /\ gen.pc = "idle" /\ gen.thrown = ForbiddenMsg
    /\ ~storyboard.isNull /\ storyboard.bible # 0
    /\ \A p \in Sessions : queue[p].pc = "idle"
    /\ error = PermissionDeniedGenerate /\ ~hasApiKey /\ ~isAnalyzing

\* the store holds the plan of generate request p, whose createCharacter call failed
CharacterFailed(p) ==
    OwnStore(p) /\ gen.pc = "idle" /\ gen.thrown \in CharacterErrors

\* C34: when createCharacter fails the queue of the request
\* is never started and issues no scene-image request, the error state is set in
\* the failing step, and the analysed plan stays in the store with every scene
\* lacking images, failure flags and isGeneratingImage.
C34_NoPipelineWithoutCharacter ==
    [][/\ (gen.pc = "character" /\ gen'.pc = "idle") =>
             /\ error' # NoErrorState /\ ~isAnalyzing'
             /\ characterImage' = 0
       /\ \A p \in Sessions :
             CharacterFailed(p)' =>
                /\ queue'[p] = IdleQueue
                /\ storyboard' = AnalysedPlan(p, Len(storyboard'.scenes))]_vars

\* C35: a patch of the run started for one generate request is never applied to
\* the StoryboardData of another request: a step of a run whose plan is not the
\* one in the store leaves the store as it is, and every image in the store was
\* obtained by the run of the plan that holds it.
C35_SessionsIsolated ==
    [][/\ \A p \in Sessions :
             (queue[p].pc \in InFlight /\ queue'[p] # queue[p] /\ ~OwnStore(p))
                => storyboard' = storyboard
       /\ ~storyboard'.isNull =>
             \A k \in DOMAIN storyboard'.scenes :
                /\ storyboard'.scenes[k].imageAUrl # Unset
                      => storyboard'.scenes[k].imageAUrl.sess = storyboard'.bible
                /\ storyboard'.scenes[k].imageBUrl # Unset
                      => storyboard'.scenes[k].imageBUrl.sess = storyboard'.bible]_vars

\* an upper bound on the backend calls handleGenerate can still make before its
\* finally, the one in flight included, as its loop variables give it
GenerateCallsLeft(g) ==
    CASE g.pc = "analysis" -> 2 + Len(Views) * SheetMaxRetries
      [] g.pc = "character" -> 1 + Len(Views) * SheetMaxRetries
      [] g.pc = "sheet" ->
            (Len(Views) - g.view) * SheetMaxRetries + (SheetMaxRetries - g.retryCount)
      [] OTHER -> 0

\* C36: every generate request leaves the analyzing state, provided each backend
\* call returns or fails: every call of handleGenerate that comes back, with a
\* result, an error or a response without an image, lowers the number of calls it
\* can still make, and when none is left isAnalyzing has been reset.
C36_GenerateLeavesAnalyzing ==
    [][(gen.pc # "idle" /\ gen' # gen) =>
          /\ GenerateCallsLeft(gen') < GenerateCallsLeft(gen)
          /\ GenerateCallsLeft(gen') >= 0
          /\ gen'.pc = "idle" => ~isAnalyzing'
          /\ gen'.pc # "idle" => isAnalyzing']_vars

\* C37: for every storyboard the two progress views agree: total is twice the
\* number of scenes, generated lies between 0 and total, and areAllImagesGenerated
\* is true exactly when generated equals total (so for a storyboard without scenes).
C37_ProgressViewsAgree ==
    svc.fn = "progress" =>
       LET count == svc.out.count
       IN /\ count.total = 2 * Len(svc.input.scenes)
          /\ 0 <= count.generated /\ count.generated <= count.total
          /\ svc.out.all <=> count.generated = count.total
          /\ Len(svc.input.scenes) = 0 => svc.out.all

\* a storyboard of two scenes with three of its four images: the first scene has
\* image A only
C37_Witness ==
    /\ svc.fn = "progress"
    /\ Len(svc.input.scenes) = 2
    /\ svc.input.scenes[1].imageAUrl # Unset /\ svc.input.scenes[1].imageBUrl = Unset
    /\ svc.out.count = [total |-> 4, generated |-> 3]
    /\ ~svc.out.all

====
